---- MODULE Spec2Model ----
(***************************************************************************)
(* Rule-based threat scoring of the Coastal Threat Alert backend.          *)
(*                                                                         *)
(* Units.  Sensor values and thresholds are kept in tenths (12 -> 120,     *)
(* 2.5 -> 25), weights in hundredths (0.20 -> 20) and scores in hundredths *)
(* of a point (41.67 -> 4167), so that every quantity of config.py is an   *)
(* integer.  The Python code computes in IEEE doubles; for the configured  *)
(* weights the double evaluation of the loop agrees with exact arithmetic  *)
(* on every one of the 4^5 risk vectors (same rounded score, same level),  *)
(* so the score is modelled as the exact rational num/den.                 *)
(*                                                                         *)
(* The repository holds two revisions of the scoring module.  This         *)
(* development follows the later one, whose classifier takes the parameter *)
(* name (backend/tests/test_threat_model.py); the earlier one              *)
(* (backend/threat_model.py) has no barometric-pressure branch and no      *)
(* guard on the total weight.                                              *)
(*                                                                         *)
(* Specifications.  Spec scores one reading (directly or through POST      *)
(* /threat/score), ClassifierSpec calls the classifier, RescoreSpec scores *)
(* a reading again after a change of one field, HistorySpec makes several  *)
(* scoring calls in one process, and ReplaySpec replays a processed table  *)
(* through CSVSimulatedStream generators (sensor_simulator.py) and answers *)
(* GET /threat/latest (app.py) from the same table.  A generator is driven *)
(* by its consumer: a pull runs it to its next yield, and its sleep is a   *)
(* step of its own, so that other streams may run while it sleeps.         *)
(***************************************************************************)
EXTENDS Integers, Sequences, FiniteSets, TLC

VARIABLES
    WEIGHTS,    \* config.WEIGHTS: the module-global weight dict in force
    pc,         \* "idle" before the call, "done" after it
    op,         \* the operation that ran: "none" | "calculate_threat_score" | "score_threat"
    row,        \* the reading handed to the operation (dict: parameter -> value)
    result,     \* outcome of calculate_threat_score: a return value or a raised exception
    response,   \* HTTP response of the endpoint (status, body)
    cps,        \* the last direct call of calculate_parameter_score: param, value, outcome
    cps_prev,   \* the call of calculate_parameter_score before it
    prev,       \* the reading and outcome of the preceding calculate_threat_score call
    frame,      \* the locals the last calculate_threat_score call ended with
    first,      \* the reading of the first call in a history of calls, and its outcome
    calls,      \* number of calls made after the first one in a history of calls
    dataset,    \* the processed CSV on disk: missing, without columns, or a table
    sim,        \* the CSVSimulatedStream object: its construction outcome and self.df
    cursor,     \* position of each iterrows() iterator in the table (1-based, 0 before)
    gen         \* each stream() generator: where it stands, what it emitted and did

vars == <<WEIGHTS, pc, op, row, result, response, cps, cps_prev, prev,
          frame, first, calls, dataset, sim, cursor, gen>>

(***************************************************************************)
(* Bounds of the input space.                                              *)
(***************************************************************************)
\* Numeric test values lie within Spread tenths of each threshold.
Spread == 1

\* A processed table has at most MaxRows rows.
MaxRows == 3

\* Number of stream() generators opened on one CSVSimulatedStream.
NumStreams == 2

\* Number of scoring calls that follow the first one in a history of calls.
MaxCalls == 2

(***************************************************************************)
(* config.py                                                               *)
(***************************************************************************)
\* Order of the keys of THRESHOLDS (dict insertion order), as iterated by the loop.
ParamOrder ==
    <<"wind_speed", "maximum_wind_speed", "humidity", "rain_intensity",
      "barometric_pressure">>

Params == {ParamOrder[i] : i \in 1..Len(ParamOrder)}

THREAT_LABELS == <<"Safe", "Caution", "Warning", "Danger">>   \* indexed by level + 1

\* In tenths of the unit.
THRESHOLDS ==
    [p \in Params |->
        CASE p = "wind_speed"          -> <<120, 220, 350>>
          [] p = "maximum_wind_speed"  -> <<180, 300, 450>>
          [] p = "humidity"            -> <<800, 900, 950>>
          [] p = "rain_intensity"      -> <<25, 75, 150>>
          [] p = "barometric_pressure" -> <<10050, 9950, 9850>>]

\* In hundredths.
ConfiguredWeights ==
    [p \in Params |->
        CASE p = "wind_speed"          -> 20
          [] p = "maximum_wind_speed"  -> 30
          [] p = "humidity"            -> 5
          [] p = "rain_intensity"      -> 15
          [] p = "barometric_pressure" -> 30]

\* Other contents the global WEIGHTS dict can be given ("tweak weights and
\* thresholds here"): every weight 1.0, every weight zero, and a dict without a
\* humidity weight.
EqualWeights == [p \in Params |-> 100]

ZeroWeights == [p \in Params |-> 0]

NoHumidityWeights == [p \in Params \ {"humidity"} |-> ConfiguredWeights[p]]

WeightConfigs == {ConfiguredWeights, EqualWeights, ZeroWeights, NoHumidityWeights}

(***************************************************************************)
(* Python values a field of a reading can hold.                            *)
(***************************************************************************)
Num(n) == [kind |-> "num", v |-> n]     \* an int or float, in tenths
None == [kind |-> "None", v |-> 0]
NaN == [kind |-> "nan", v |-> 0]        \* float("nan")
Str == [kind |-> "str", v |-> 0]        \* a non-numeric value such as "abc"
Missing == [kind |-> "missing", v |-> 0]  \* the key is not in the dict

\* row.get(param): the value, or None when the key is absent.
DictGet(r, param) == IF r[param].kind = "missing" THEN None ELSE r[param]

\* Python's value < t and value > t for a float/int or NaN value and a number t
\* (every comparison with NaN is False).
PyLt(value, t) == value.kind = "num" /\ value.v < t
PyGt(value, t) == value.kind = "num" /\ value.v > t

Returned(x) == [kind |-> "return", ret |-> x]
Raised(e) == [kind |-> "raise", exc |-> e]

(***************************************************************************)
(* Faulty variants of the classifier, used to test the properties below.   *)
(***************************************************************************)
\* Inclusive comparisons: a value on a threshold stays in the lower bucket.
calculate_parameter_score_inclusive(param, value, thresholds) ==
    IF value.kind = "None" THEN Returned(0)
    ELSE IF value.kind = "str" THEN Raised("TypeError")
    ELSE IF value.kind = "nan" THEN Returned(3)
    ELSE IF param = "barometric_pressure"
         THEN IF value.v >= thresholds[1] THEN Returned(0)
              ELSE IF value.v >= thresholds[2] THEN Returned(1)
              ELSE IF value.v >= thresholds[3] THEN Returned(2)
              ELSE Returned(3)
    ELSE IF value.v <= thresholds[1] THEN Returned(0)
    ELSE IF value.v <= thresholds[2] THEN Returned(1)
    ELSE IF value.v <= thresholds[3] THEN Returned(2)
    ELSE Returned(3)

\* The second comparison made against the third threshold.
calculate_parameter_score_skipped(param, value, thresholds) ==
    IF value.kind = "None" THEN Returned(0)
    ELSE IF value.kind = "str" THEN Raised("TypeError")
    ELSE IF param = "barometric_pressure"
         THEN IF PyGt(value, thresholds[1]) THEN Returned(0)
              ELSE IF PyGt(value, thresholds[3]) THEN Returned(1)
              ELSE Returned(3)
    ELSE IF PyLt(value, thresholds[1]) THEN Returned(0)
    ELSE IF PyLt(value, thresholds[3]) THEN Returned(1)
    ELSE Returned(3)

\* No branch for barometric pressure: every parameter read as higher-is-worse.
calculate_parameter_score_undirected(param, value, thresholds) ==
    IF value.kind = "None" THEN Returned(0)
    ELSE IF value.kind = "str" THEN Raised("TypeError")
    ELSE IF PyLt(value, thresholds[1]) THEN Returned(0)
    ELSE IF PyLt(value, thresholds[2]) THEN Returned(1)
    ELSE IF PyLt(value, thresholds[3]) THEN Returned(2)
    ELSE Returned(3)

\* No guard for None: the comparison of None with a number raises.
calculate_parameter_score_unguarded(param, value, thresholds) ==
    IF value.kind \in {"None", "str"} THEN Raised("TypeError")
    ELSE IF param = "barometric_pressure"
         THEN IF PyGt(value, thresholds[1]) THEN Returned(0)
              ELSE IF PyGt(value, thresholds[2]) THEN Returned(1)
              ELSE IF PyGt(value, thresholds[3]) THEN Returned(2)
              ELSE Returned(3)
    ELSE IF PyLt(value, thresholds[1]) THEN Returned(0)
    ELSE IF PyLt(value, thresholds[2]) THEN Returned(1)
    ELSE IF PyLt(value, thresholds[3]) THEN Returned(2)
    ELSE Returned(3)

(***************************************************************************)
(* threat_model: calculate_parameter_score(param, value, thresholds)       *)
(***************************************************************************)
calculate_parameter_score(param, value, thresholds) ==
    IF value.kind = "None" THEN Returned(0)
    ELSE IF value.kind = "str" THEN Raised("TypeError")  \* '>' / '<' with a str
    ELSE IF param = "barometric_pressure"
         THEN IF PyGt(value, thresholds[1]) THEN Returned(0)
              ELSE IF PyGt(value, thresholds[2]) THEN Returned(1)
              ELSE IF PyGt(value, thresholds[3]) THEN Returned(2)
              ELSE Returned(3)
    ELSE IF PyLt(value, thresholds[1]) THEN Returned(0)
    ELSE IF PyLt(value, thresholds[2]) THEN Returned(1)
    ELSE IF PyLt(value, thresholds[3]) THEN Returned(2)
    ELSE Returned(3)

(***************************************************************************)
(* threat_model: calculate_threat_score(row)                               *)
(***************************************************************************)
RECURSIVE SumOver(_, _)
\* sum(d.values()) for a dict d restricted to the keys in S
SumOver(d, S) ==
    IF S = {} THEN 0
    ELSE LET k == CHOOSE x \in S : TRUE IN d[k] + SumOver(d, S \ {k})

\* total_weight = sum(WEIGHTS.values()), in hundredths
TotalWeight(W) == SumOver(W, DOMAIN W)

\* (risk_level / 3) * WEIGHTS[param] * 100, times 3 (w is in hundredths, so the
\* factors 100 cancel): the loop adds thirds of weight-hundredths.
WeightedTerm(risk_level, w) == risk_level * w

\* The for loop over THRESHOLDS.items(), from position i on, with the locals
\* acc = (parameter_scores, weighted_sum * 3); exc names the exception that ended it.
RECURSIVE ScoreLoop(_, _, _, _)
ScoreLoop(r, W, i, acc) ==
    IF i > Len(ParamOrder) THEN acc
    ELSE LET param == ParamOrder[i]
             thresholds == THRESHOLDS[param]
             value == DictGet(r, param)
             risk_level == calculate_parameter_score(param, value, thresholds)
         IN  IF risk_level.kind = "raise"
             THEN [acc EXCEPT !.exc = risk_level.exc]
             ELSE IF param \notin DOMAIN W      \* WEIGHTS[param]
             THEN [acc EXCEPT !.exc = "KeyError"]
             ELSE ScoreLoop(r, W, i + 1,
                    [parameter_scores |->
                        [q \in DOMAIN acc.parameter_scores \cup {param} |->
                            IF q = param THEN risk_level.ret
                            ELSE acc.parameter_scores[q]],
                     weighted_sum3 |->
                        acc.weighted_sum3 + WeightedTerm(risk_level.ret, W[param]),
                     exc |-> "none"])

\* Faulty variant: the weighted sum is not divided by the total weight.
Normalize_undivided(weighted_sum3, total_weight) ==
    IF total_weight > 0
    THEN [num |-> weighted_sum3, den |-> 3]
    ELSE [num |-> 0, den |-> 1]

\* score = weighted_sum / total_weight if total_weight > 0 else 0, as the exact
\* fraction num/den of a point.
Normalize(weighted_sum3, total_weight) ==
    IF total_weight > 0
    THEN [num |-> 100 * weighted_sum3, den |-> 3 * total_weight]
    ELSE [num |-> 0, den |-> 1]

\* Faulty variant: inclusive cut points.
LevelOf_inclusive(score) ==
    IF score.num <= 25 * score.den THEN THREAT_LABELS[1]
    ELSE IF score.num <= 50 * score.den THEN THREAT_LABELS[2]
    ELSE IF score.num <= 75 * score.den THEN THREAT_LABELS[3]
    ELSE THREAT_LABELS[4]

\* The if/elif chain mapping the unrounded score to a label.
LevelOf(score) ==
    IF score.num < 25 * score.den THEN THREAT_LABELS[1]
    ELSE IF score.num < 50 * score.den THEN THREAT_LABELS[2]
    ELSE IF score.num < 75 * score.den THEN THREAT_LABELS[3]
    ELSE THREAT_LABELS[4]

\* round(score, 2), in hundredths: the nearest hundredth, a tie going to the even one.
Round2(score) ==
    LET n == 100 * score.num
        d == score.den
        q == n \div d
        rem == n - q * d
    IN  IF 2 * rem < d THEN q
        ELSE IF 2 * rem > d THEN q + 1
        ELSE IF q % 2 = 0 THEN q ELSE q + 1

\* The locals a call starts with: parameter_scores = {} and weighted_sum = 0.
NoFrame == [parameter_scores |-> <<>>, weighted_sum3 |-> 0, exc |-> "none"]

\* Faulty variant: the accumulators outlive the call and are not reset.
InitialLocals_kept == frame

InitialLocals == [parameter_scores |-> <<>>, weighted_sum3 |-> 0, exc |-> "none"]

\* The locals when the loop has ended (or an exception has ended it).
FinalLocals(r, W) == ScoreLoop(r, W, 1, InitialLocals)

\* Faulty variant: the division is not guarded, a zero total weight raises.
calculate_threat_score_undefended(r, W) ==
    LET total_weight == TotalWeight(W)
        acc == ScoreLoop(r, W, 1,
                 [parameter_scores |-> <<>>, weighted_sum3 |-> 0, exc |-> "none"])
        score == [num |-> 100 * acc.weighted_sum3, den |-> 3 * total_weight]
    IN  IF acc.exc # "none" THEN Raised(acc.exc)
        ELSE IF total_weight = 0 THEN Raised("ZeroDivisionError")
        ELSE [kind |-> "return",
              score |-> Round2(score),
              level |-> LevelOf(score),
              parameters |-> acc.parameter_scores]

calculate_threat_score(r, W) ==
    LET total_weight == TotalWeight(W)
        acc == FinalLocals(r, W)
        score == Normalize(acc.weighted_sum3, total_weight)
    IN  IF acc.exc # "none" THEN Raised(acc.exc)
        ELSE [kind |-> "return",
              score |-> Round2(score),
              level |-> LevelOf(score),
              parameters |-> acc.parameter_scores]

(***************************************************************************)
(* app: POST /threat/score                                                 *)
(***************************************************************************)
\* Fields of the response model ThreatScoreResponse.
ThreatScoreResponse(res) ==
    [score |-> res.score, level |-> res.level, parameters |-> res.parameters]

\* Request validation by the ThreatScoreRequest schema, run before the handler:
\* five required float fields, humidity in [0, 100], rain_intensity >= 0.  The
\* schema does not say whether a NaN passes, so both outcomes are possible.
ValidationOutcomes(payload) ==
    IF \E f \in Params : payload[f].kind \in {"missing", "None", "str"}
    THEN {FALSE}
    ELSE IF \/ payload["humidity"].kind = "num"
               /\ (payload["humidity"].v < 0 \/ payload["humidity"].v > 1000)
            \/ payload["rain_intensity"].kind = "num"
               /\ payload["rain_intensity"].v < 0
    THEN {FALSE}
    ELSE IF \E f \in Params : payload[f].kind = "nan"
    THEN {TRUE, FALSE}
    ELSE {TRUE}

\* The handler score_threat: model_dump, calculate_threat_score, response model;
\* any exception becomes a 500.
ScoreThreatHandler(payload, W) ==
    LET res == calculate_threat_score(payload, W)
    IN  IF res.kind = "raise"
        THEN [status |-> 500, body |-> [detail |-> "Scoring failed"]]
        ELSE [status |-> 200, body |-> ThreatScoreResponse(res)]

(***************************************************************************)
(* Inputs.                                                                 *)
(***************************************************************************)
\* The number d tenths on the low-risk side of threshold t.
SafeSide(p, t, d) == IF p = "barometric_pressure" THEN t + d ELSE t - d

\* One numeric value per risk bucket of parameter p: below the first threshold
\* and on each threshold.
BucketValues(p) ==
    <<SafeSide(p, THRESHOLDS[p][1], Spread), THRESHOLDS[p][1],
      THRESHOLDS[p][2], THRESHOLDS[p][3]>>

\* The values field p of a reading is drawn from.
FieldValues(p) ==
    <<Missing, None, NaN, Str>>
        \o [k \in 1..Len(BucketValues(p)) |-> Num(BucketValues(p)[k])]

Rows ==
    {[p \in Params |-> FieldValues(p)[c[p]]] :
        c \in [Params -> 1..Len(FieldValues("wind_speed"))]}

\* Numeric arguments for direct calls of the classifier: zero and everything
\* within Spread tenths of a threshold.
NumValues(p) ==
    {0} \cup {THRESHOLDS[p][k] + d : k \in 1..3, d \in (0 - Spread)..Spread}

ClassifierValues(p) == {None, NaN, Str} \cup {Num(n) : n \in NumValues(p)}

NoResult == [kind |-> "none"]
NoResponse == [status |-> 0]
NoCall == [param |-> "none", value |-> None, out |-> [kind |-> "none"]]
NoRow == [p \in Params |-> Missing]
NoPrev == [row |-> NoRow, result |-> NoResult]
NoDataset == [kind |-> "none"]
NoSim == [status |-> "none"]
NoCursor == <<>>
NoGen == <<>>

\* No scoring call was made and nothing is replayed.
Untouched ==
    /\ frame = NoFrame
    /\ first = NoPrev
    /\ calls = 0
    /\ dataset = NoDataset
    /\ sim = NoSim
    /\ cursor = NoCursor
    /\ gen = NoGen

(***************************************************************************)
(* Scoring one reading: the state machine.                                 *)
(***************************************************************************)
Init ==
    /\ WEIGHTS \in WeightConfigs
    /\ row \in Rows
    /\ pc = "idle"
    /\ op = "none"
    /\ result = NoResult
    /\ response = NoResponse
    /\ cps = NoCall
    /\ cps_prev = NoCall
    /\ prev = NoPrev
    /\ Untouched

\* A direct call calculate_threat_score(row).
CalculateThreatScore ==
    /\ pc = "idle"
    /\ pc' = "done"
    /\ op' = "calculate_threat_score"
    /\ result' = calculate_threat_score(row, WEIGHTS)
    /\ frame' = FinalLocals(row, WEIGHTS)
    /\ UNCHANGED <<WEIGHTS, row, response, cps, cps_prev, prev,
                   first, calls, dataset, sim, cursor, gen>>

\* POST /threat/score with the reading as the request body.
ScoreThreat ==
    /\ pc = "idle"
    /\ \E valid \in ValidationOutcomes(row) :
        IF valid
        THEN /\ result' = calculate_threat_score(row, WEIGHTS)
             /\ response' = ScoreThreatHandler(row, WEIGHTS)
             /\ frame' = FinalLocals(row, WEIGHTS)
        ELSE /\ result' = NoResult
             /\ response' = [status |-> 422, body |-> [detail |-> "validation"]]
             /\ UNCHANGED frame
    /\ pc' = "done"
    /\ op' = "score_threat"
    /\ UNCHANGED <<WEIGHTS, row, cps, cps_prev, prev,
                   first, calls, dataset, sim, cursor, gen>>

Next == CalculateThreatScore \/ ScoreThreat

Spec == Init /\ [][Next]_vars

(***************************************************************************)
(* Direct calls of the classifier.                                         *)
(***************************************************************************)
ClassifierInit ==
    /\ WEIGHTS = ConfiguredWeights
    /\ row = NoRow
    /\ pc = "idle"
    /\ op = "none"
    /\ result = NoResult
    /\ response = NoResponse
    /\ cps = NoCall
    /\ cps_prev = NoCall
    /\ prev = NoPrev
    /\ Untouched

\* calculate_parameter_score(param, value, THRESHOLDS[param]); the call before
\* it is remembered.
ClassifyCall ==
    /\ \E param \in Params : \E value \in ClassifierValues(param) :
        cps' = [param |-> param, value |-> value,
                out |-> calculate_parameter_score(param, value, THRESHOLDS[param])]
    /\ cps_prev' = cps
    /\ UNCHANGED <<WEIGHTS, pc, op, row, result, response, prev,
                   frame, first, calls, dataset, sim, cursor, gen>>

ClassifierNext == ClassifyCall

ClassifierSpec == ClassifierInit /\ [][ClassifierNext]_vars

(***************************************************************************)
(* Scoring a reading again after one of its fields changed.                *)
(***************************************************************************)
\* The number d tenths on the high-risk side of threshold t.
RiskSide(p, t, d) == SafeSide(p, t, 0 - d)

\* Numeric values of field p, from the lowest to the highest risk.
SeverityValues(p) ==
    BucketValues(p) \o <<RiskSide(p, THRESHOLDS[p][3], Spread)>>

NumericRows ==
    {[p \in Params |-> Num(SeverityValues(p)[c[p]])] :
        c \in [Params -> 1..Len(SeverityValues("wind_speed"))]}

RescoreInit ==
    /\ WEIGHTS = ConfiguredWeights
    /\ row \in NumericRows
    /\ pc = "idle"
    /\ op = "none"
    /\ result = NoResult
    /\ response = NoResponse
    /\ cps = NoCall
    /\ cps_prev = NoCall
    /\ prev = NoPrev
    /\ Untouched

\* calculate_threat_score called on the reading with field param set to another
\* number; the call before it is remembered.
Rescore ==
    /\ pc = "done"
    /\ \E param \in Params : \E k \in 1..Len(SeverityValues(param)) :
        /\ SeverityValues(param)[k] # row[param].v
        /\ row' = [row EXCEPT ![param] = Num(SeverityValues(param)[k])]
        /\ result' = calculate_threat_score(row', WEIGHTS)
        /\ frame' = FinalLocals(row', WEIGHTS)
    /\ prev' = [row |-> row, result |-> result]
    /\ op' = "calculate_threat_score"
    /\ UNCHANGED <<WEIGHTS, pc, response, cps, cps_prev,
                   first, calls, dataset, sim, cursor, gen>>

RescoreNext == CalculateThreatScore \/ Rescore

RescoreSpec == RescoreInit /\ [][RescoreNext]_vars

(***************************************************************************)
(* sensor_simulator: CSVSimulatedStream over the processed table.          *)
(***************************************************************************)
Reading(ws, mws, h, ri, bp) ==
    [wind_speed |-> ws, maximum_wind_speed |-> mws, humidity |-> h,
     rain_intensity |-> ri, barometric_pressure |-> bp]

\* Rows a processed table is made of: a reading on the thresholds' caution side,
\* a calm one, and one whose wind speed and pressure cells are empty (pandas
\* reads an empty cell as NaN).
SampleRows ==
    { Reading(Num(180), Num(220), Num(800), Num(30), Num(9950)),
      Reading(Num(50), Num(100), Num(500), Num(0), Num(10130)),
      Reading(NaN, Num(100), Num(500), Num(0), NaN) }

Tables == UNION {[1..n -> SampleRows] : n \in 0..MaxRows}

\* The file at the dataset path: absent, present without a header line, or a
\* header line followed by the rows of a table (possibly none).
Datasets ==
    {[kind |-> k, rows |-> <<>>] : k \in {"missing", "no_columns"}}
        \cup {[kind |-> "table", rows |-> t] : t \in Tables}

\* pd.read_csv(path)
ReadCsv(ds) ==
    IF ds.kind = "missing" THEN Raised("FileNotFoundError")
    ELSE IF ds.kind = "no_columns" THEN Raised("EmptyDataError")
    ELSE Returned(ds.rows)

\* Faulty variant: a missing file is not caught.
Constructor_uncaught(ds) ==
    LET read == ReadCsv(ds)
    IN  IF read.kind = "return"
        THEN [status |-> "ok", exc |-> "none", df |-> read.ret]
        ELSE [status |-> "raised", exc |-> read.exc, df |-> <<>>]

\* CSVSimulatedStream.__init__: a missing file leaves an empty DataFrame, any
\* other exception of read_csv leaves the constructor.
Constructor(ds) ==
    LET read == ReadCsv(ds)
    IN  IF read.kind = "return"
        THEN [status |-> "ok", exc |-> "none", df |-> read.ret]
        ELSE IF read.exc = "FileNotFoundError"
        THEN [status |-> "ok", exc |-> "none", df |-> <<>>]
        ELSE [status |-> "raised", exc |-> read.exc, df |-> <<>>]

Streams == 1..NumStreams

\* A generator object returned by stream(), before its first next().
NewGen == [state |-> "unstarted", emitted |-> <<>>, events |-> <<>>, snapshot |-> <<>>]

\* Faulty variant: the last row is never reached.
IterNext_short(pos, n) == IF pos = 0 \/ pos < n - 1 THEN pos + 1 ELSE 0

\* Faulty variant: the iterator starts over after the last row.
IterNext_wrapped(pos, n) == IF pos < n THEN pos + 1 ELSE 1

\* df.iterrows().__next__ from position pos of n rows: the next position, 0 for
\* StopIteration.
IterNext(pos, n) == IF pos < n THEN pos + 1 ELSE 0

\* row.to_dict(): a new dict with the row's columns and cell values
ToDict(r) == [c \in DOMAIN r |-> r[c]]

\* Faulty variant: the delay comes before the item.
LoopBody_delay_first == <<"sleep", "yield">>

\* The statements of the loop body in stream(), in order.
LoopBody == <<"yield", "sleep">>

\* Faulty variant: the generators share one iterator kept on the object.
CursorOf_shared(s) == 1

\* The iterrows() iterator a generator reads: its own.
CursorOf(s) == s

\* Faulty variant: a closed generator is resumed.
CanResume_closed(g) == g.state \in {"suspended", "closed"}

\* next() resumes a generator suspended at its yield.
CanResume(g) == g.state = "suspended"

\* Statement k of the loop body runs for the row at position pos: the yield hands
\* the payload to the consumer and suspends, the sleep blocks.
Exec(g, pos, k) ==
    IF LoopBody[k] = "yield"
    THEN [g EXCEPT !.state = "suspended",
                   !.emitted = Append(@, ToDict(sim.df[pos])),
                   !.events = Append(@, "emit")]
    ELSE [g EXCEPT !.state = "sleeping",
                   !.events = Append(@, "sleep")]

\* Index of statement stmt in the loop body.
StmtIndex(stmt) == CHOOSE k \in 1..Len(LoopBody) : LoopBody[k] = stmt

\* The generator of stream s goes on after statement k of the loop body: to the
\* next statement, or to the next row's first statement, or to its end.
Continue(s, k) ==
    LET c == CursorOf(s)
        np == IterNext(cursor[c], Len(sim.df))
    IN  IF k < Len(LoopBody)
        THEN /\ gen' = [gen EXCEPT ![s] = Exec(@, cursor[c], k + 1)]
             /\ UNCHANGED cursor
        ELSE IF np = 0
        THEN /\ gen' = [gen EXCEPT ![s].state = "finished"]
             /\ UNCHANGED cursor
        ELSE /\ gen' = [gen EXCEPT ![s] = Exec(@, np, 1)]
             /\ cursor' = [cursor EXCEPT ![c] = np]

(***************************************************************************)
(* app: GET /threat/latest                                                 *)
(***************************************************************************)
HttpError(status, detail) ==
    [kind |-> "raise", exc |-> "HTTPException", status |-> status, detail |-> detail]

\* Keys of the dict _load_latest_reading returns.
RawKeys == Params \cup {"station_name", "timestamp"}

\* Faulty variant: the first row of the table is taken.
LatestIndex_first(df) == 1

\* df.iloc[-1]: the position of the last row
LatestIndex(df) == Len(df)

\* float(get(col)) if pd.notna(get(col)) else None
RawValue(v) == IF v.kind = "num" THEN v ELSE None

\* _load_latest_reading over a table with the five snake_case scoring columns
\* (no station_name and no measurement_timestamp column: both come out None).
LoadLatestReading(ds) ==
    IF ds.kind = "missing" THEN HttpError(404, "Processed dataset not found")
    ELSE LET read == ReadCsv(ds)
         IN  IF read.kind = "raise" THEN HttpError(500, "Failed to read processed CSV")
             ELSE IF read.ret = <<>> THEN HttpError(404, "Processed CSV is empty")
             ELSE LET latest == read.ret[LatestIndex(read.ret)]
                  IN  Returned([k \in RawKeys |->
                                  IF k \in Params THEN RawValue(latest[k]) ELSE None])

\* float(raw.get(key) or 0.0): None and 0.0 both give 0.0
ModelValue(v) ==
    IF v.kind \in {"None", "missing"} \/ (v.kind = "num" /\ v.v = 0) THEN Num(0) ELSE v

\* _to_model_row
ToModelRow(raw) == [p \in Params |-> ModelValue(DictGet(raw, p))]

\* LatestThreatResponse(**result, raw=raw)
LatestThreatResponse(res, raw) ==
    [score |-> res.score, level |-> res.level, parameters |-> res.parameters,
     raw |-> raw]

\* The handler threat_latest: an HTTPException becomes its status, any other
\* exception a 500.
ThreatLatestHandler(ds, W) ==
    LET loaded == LoadLatestReading(ds)
        res == calculate_threat_score(ToModelRow(loaded.ret), W)
    IN  IF loaded.kind = "raise"
        THEN [status |-> loaded.status, body |-> [detail |-> loaded.detail]]
        ELSE IF res.kind = "raise"
        THEN [status |-> 500, body |-> [detail |-> "Internal Server Error"]]
        ELSE [status |-> 200, body |-> LatestThreatResponse(res, loaded.ret)]

\* GET /threat/latest, once.
ThreatLatest ==
    /\ op = "none"
    /\ op' = "threat_latest"
    /\ pc' = "done"
    /\ response' = ThreatLatestHandler(dataset, WEIGHTS)
    /\ LET loaded == LoadLatestReading(dataset)
       IN  IF loaded.kind = "raise"
           THEN /\ row' = NoRow
                /\ result' = NoResult
                /\ UNCHANGED frame
           ELSE /\ row' = ToModelRow(loaded.ret)
                /\ result' = calculate_threat_score(row', WEIGHTS)
                /\ frame' = FinalLocals(row', WEIGHTS)
    /\ UNCHANGED <<WEIGHTS, cps, cps_prev, prev, first, calls, dataset, sim, cursor, gen>>

(***************************************************************************)
(* Replaying the table and asking for its latest reading: the state machine *)
(***************************************************************************)
ReplayInit ==
    /\ WEIGHTS = ConfiguredWeights
    /\ row = NoRow
    /\ pc = "idle"
    /\ op = "none"
    /\ result = NoResult
    /\ response = NoResponse
    /\ cps = NoCall
    /\ cps_prev = NoCall
    /\ prev = NoPrev
    /\ frame = NoFrame
    /\ first = NoPrev
    /\ calls = 0
    /\ dataset \in Datasets
    /\ sim = NoSim
    /\ cursor = [s \in Streams |-> 0]
    /\ gen = [s \in Streams |-> NewGen]

\* CSVSimulatedStream(path)
Construct ==
    /\ sim = NoSim
    /\ sim' = Constructor(dataset)
    /\ UNCHANGED <<WEIGHTS, pc, op, row, result, response, cps, cps_prev, prev,
                   frame, first, calls, dataset, cursor, gen>>

\* The first next() on the generator of stream s: an empty DataFrame ends it,
\* otherwise the loop starts at the first row.
Start(s) ==
    /\ sim # NoSim
    /\ sim.status = "ok"
    /\ gen[s].state = "unstarted"
    /\ IF sim.df = <<>>
       THEN /\ gen' = [gen EXCEPT ![s].state = "finished"]
            /\ UNCHANGED cursor
       ELSE /\ gen' = [gen EXCEPT ![s] = Exec(@, IterNext(0, Len(sim.df)), 1)]
            /\ cursor' = [cursor EXCEPT ![CursorOf(s)] = IterNext(0, Len(sim.df))]
    /\ UNCHANGED <<WEIGHTS, pc, op, row, result, response, cps, cps_prev, prev,
                   frame, first, calls, dataset, sim>>

\* A further next() on the generator of stream s, after any wait of the consumer.
Resume(s) ==
    /\ CanResume(gen[s])
    /\ Continue(s, StmtIndex("yield"))
    /\ UNCHANGED <<WEIGHTS, pc, op, row, result, response, cps, cps_prev, prev,
                   frame, first, calls, dataset, sim>>

\* time.sleep(self.delay_s) returns in the generator of stream s.
Wake(s) ==
    /\ gen[s].state = "sleeping"
    /\ Continue(s, StmtIndex("sleep"))
    /\ UNCHANGED <<WEIGHTS, pc, op, row, result, response, cps, cps_prev, prev,
                   frame, first, calls, dataset, sim>>

\* The consumer of stream s cancels: it closes the generator, which can only be
\* done while the generator does not run.  What it had done is remembered.
Close(s) ==
    /\ sim # NoSim
    /\ sim.status = "ok"
    /\ gen[s].state \in {"unstarted", "suspended"}
    /\ gen' = [gen EXCEPT ![s].state = "closed",
                          ![s].snapshot = <<[emitted |-> gen[s].emitted,
                                             events |-> gen[s].events]>>]
    /\ UNCHANGED <<WEIGHTS, pc, op, row, result, response, cps, cps_prev, prev,
                   frame, first, calls, dataset, sim, cursor>>

ReplayNext ==
    \/ Construct
    \/ ThreatLatest
    \/ \E s \in Streams : Start(s) \/ Resume(s) \/ Wake(s) \/ Close(s)

ReplaySpec == ReplayInit /\ [][ReplayNext]_vars

(***************************************************************************)
(* A history of scoring calls on one process.                              *)
(***************************************************************************)
\* The fixed regression reading: 18, 22, 80, 3, 995.
RegressionReading == Reading(Num(180), Num(220), Num(800), Num(30), Num(9950))

\* Values of field p in the readings of a history: absent, text, and a number
\* on the danger side.
HistoryValues(p) == <<Missing, Str, Num(SeverityValues(p)[5])>>

HistoryRows ==
    {[p \in Params |-> HistoryValues(p)[c[p]]] :
        c \in [Params -> 1..Len(HistoryValues("wind_speed"))]}

HistoryInit ==
    /\ WEIGHTS = ConfiguredWeights
    /\ row \in SampleRows
    /\ pc = "idle"
    /\ op = "none"
    /\ result = NoResult
    /\ response = NoResponse
    /\ cps = NoCall
    /\ cps_prev = NoCall
    /\ prev = NoPrev
    /\ Untouched

\* The first call calculate_threat_score(row) of the process.
FirstCall ==
    /\ pc = "idle"
    /\ pc' = "done"
    /\ op' = "calculate_threat_score"
    /\ result' = calculate_threat_score(row, WEIGHTS)
    /\ frame' = FinalLocals(row, WEIGHTS)
    /\ first' = [row |-> row, result |-> result']
    /\ UNCHANGED <<WEIGHTS, row, response, cps, cps_prev, prev,
                   calls, dataset, sim, cursor, gen>>

\* A further call, on any reading or on the first one again.
ScoreAgain ==
    /\ pc = "done"
    /\ calls < MaxCalls
    /\ \E r \in HistoryRows \cup {first.row} :
        /\ row' = r
        /\ result' = calculate_threat_score(r, WEIGHTS)
        /\ frame' = FinalLocals(r, WEIGHTS)
    /\ calls' = calls + 1
    /\ UNCHANGED <<WEIGHTS, pc, op, response, cps, cps_prev, prev,
                   first, dataset, sim, cursor, gen>>

HistoryNext == FirstCall \/ ScoreAgain

HistorySpec == HistoryInit /\ [][HistoryNext]_vars

(***************************************************************************)
(* Properties of the classifier (ClassifierSpec).                          *)
(***************************************************************************)
Called == cps.param # "none"

OnThreshold(k) ==
    /\ Called
    /\ cps.value.kind = "num"
    /\ cps.value.v = THRESHOLDS[cps.param][k]

C2_AbsentOrNaNIsSafe ==
    (Called /\ cps.value.kind \in {"None", "nan"}) => cps.out = Returned(0)

\* The direction-specific table: for barometric_pressure value > t1 gives 0, else
\* value > t2 gives 1, else value > t3 gives 2, else 3; for every other
\* parameter value < t1 gives 0, else value < t2 gives 1, else value < t3 gives
\* 2, else 3.
ReferenceLevel(p, v) ==
    LET t == THRESHOLDS[p]
    IN  IF p = "barometric_pressure"
        THEN CASE v > t[1] -> 0
               [] v <= t[1] /\ v > t[2] -> 1
               [] v <= t[2] /\ v > t[3] -> 2
               [] OTHER -> 3
        ELSE CASE v < t[1] -> 0
               [] v >= t[1] /\ v < t[2] -> 1
               [] v >= t[2] /\ v < t[3] -> 2
               [] OTHER -> 3

OffThresholds ==
    /\ Called
    /\ cps.value.kind = "num"
    /\ \A k \in 1..3 : cps.value.v # THRESHOLDS[cps.param][k]

Scored == pc = "done" /\ op = "calculate_threat_score"

\* The classifier's level for reading[p].
RiskOf(p) == calculate_parameter_score(p, DictGet(row, p), THRESHOLDS[p]).ret

ValidConfig == Params \subseteq DOMAIN WEIGHTS /\ SumOver(WEIGHTS, Params) > 0

\* C4: the returned score is, rounded to 2 decimal places, the sum over all
\* configured parameters of (risk_p / 3) * weight_p * 100 divided by the sum of
\* the weights, risk_p being the classifier's level for reading[p]; and the
\* returned parameters map has exactly one entry per configured parameter,
\* holding risk_p.  (score is in hundredths and weights in hundredths: the
\* returned score is a nearest hundredth of 100 * sum(risk_p * W_p) / (3 * sum W).)
C4_ScoreIsNormalizedWeightedSum ==
    (Scored /\ result.kind = "return" /\ ValidConfig) =>
        LET sumRW == SumOver([p \in Params |-> RiskOf(p) * WEIGHTS[p]], Params)
            sumW == SumOver(WEIGHTS, Params)
            diff == result.score * 3 * sumW - 10000 * sumRW
        IN  /\ DOMAIN result.parameters = Params
            /\ \A p \in Params : result.parameters[p] = RiskOf(p)
            /\ 2 * diff <= 3 * sumW
            /\ 2 * diff >= 0 - 3 * sumW

\* Under equal weights a reading with every field on its first threshold has
\* risk 1 everywhere and scores 33.33.
C4_Witness ==
    /\ Scored
    /\ result.kind = "return"
    /\ WEIGHTS = EqualWeights
    /\ \A p \in Params : result.parameters[p] = 1
    /\ result.score = 3333

AllNumbers == \A p \in Params : row[p].kind = "num"

\* The label of a score (in hundredths) under the fixed cut points.
CutPointLabel(score) ==
    CASE score < 2500 -> "Safe"
      [] score >= 2500 /\ score < 5000 -> "Caution"
      [] score >= 5000 /\ score < 7500 -> "Warning"
      [] score >= 7500 -> "Danger"

\* C5: for a reading whose five fields are numbers, 0 <= score <= 100 and the
\* level is the label of the returned (rounded) score under the cut points
\* 25, 50, 75.
C5_ScoreInRangeAndLevelConsistent ==
    (Scored /\ AllNumbers /\ result.kind = "return") =>
        /\ 0 <= result.score
        /\ result.score <= 10000
        /\ result.level = CutPointLabel(result.score)

C5_Witness ==
    /\ Scored
    /\ AllNumbers
    /\ result.kind = "return"
    /\ result.score = 2500
    /\ result.level = "Caution"

BadConfig ==
    \/ TotalWeight(WEIGHTS) <= 0
    \/ \E p \in Params : p \notin DOMAIN WEIGHTS

Malformed(p) == row[p].kind \in {"missing", "None", "nan", "str"}

\* C7: under a valid configuration calculate_threat_score never raises, and a
\* field that is missing, None, NaN or non-numeric has risk 0.
C7_NeverRaisesOnMalformedReading ==
    (Scored /\ ValidConfig) =>
        /\ result.kind = "return"
        /\ \A p \in Params : Malformed(p) => result.parameters[p] = 0

AllAbsent == \A p \in Params : row[p].kind \in {"missing", "None"}

\* C8: for a reading in which all five scoring fields are absent (key missing
\* or value None) the call returns score 0, level Safe and risk 0 for every
\* parameter.
C8_AllAbsentIsSafe ==
    (Scored /\ AllAbsent /\ Params \subseteq DOMAIN WEIGHTS) =>
        /\ result.kind = "return"
        /\ result.score = 0
        /\ result.level = "Safe"
        /\ DOMAIN result.parameters = Params
        /\ \A p \in Params : result.parameters[p] = 0

C8_Witness ==
    /\ Scored
    /\ WEIGHTS = ConfiguredWeights
    /\ row["wind_speed"] = Missing
    /\ row["barometric_pressure"] = None
    /\ AllAbsent
    /\ result.kind = "return"
    /\ result.score = 0

\* C10: the response of the score-one-reading operation has, besides score,
\* level and parameters, a raw field holding the submitted reading unmodified.
C10_ScoreResponseCarriesRaw ==
    (pc = "done" /\ op = "score_threat" /\ response.status = 200) =>
        /\ {"score", "level", "parameters", "raw"} \subseteq DOMAIN response.body
        /\ \A f \in Params : response.body.raw[f] = row[f]

(***************************************************************************)
(* Monotonicity under a change of one field (RescoreSpec).                 *)
(***************************************************************************)
\* v2 is at least as severe a measurement of p as v1.
AtLeastAsSevere(p, v1, v2) ==
    IF p = "barometric_pressure" THEN v1 >= v2 ELSE v1 <= v2

Source == dataset.rows

\* The generator of stream s was not closed by its consumer.
Uncancelled(s) == gen[s].snapshot = <<>>

\* What stream s emitted is the first rows of the source, in source order.
EmitsSourcePrefix(s) ==
    /\ Len(gen[s].emitted) <= Len(Source)
    /\ \A i \in 1..Len(gen[s].emitted) : gen[s].emitted[i] = Source[i]

\* C11: whatever the interleaving of pulls and waits, a stream over a source of
\* N >= 1 rows that its consumer does not close emits row i as its i-th item,
\* never more than N items, and when it has terminated it has emitted exactly
\* the N rows in source order.
C11_EmitsAllRowsInOrderThenEnds ==
    \A s \in Streams :
        (Uncancelled(s) /\ Len(Source) >= 1) =>
            /\ EmitsSourcePrefix(s)
            /\ gen[s].state = "finished" => Len(gen[s].emitted) = Len(Source)

\* A stream has terminated after emitting three rows that are not all the same.
C11_Witness ==
    \E s \in Streams :
        /\ gen[s].state = "finished"
        /\ Uncancelled(s)
        /\ Len(gen[s].emitted) = 3
        /\ gen[s].emitted[1] # gen[s].emitted[2]
        /\ gen[s].emitted[2] # gen[s].emitted[3]

\* C12: once the consumer has closed a stream that had emitted N items, the
\* stream stays closed with exactly those N items, the first N rows of the
\* source, and nothing further of it runs: no item, no delay.
C12_NothingAfterCancellation ==
    \A s \in Streams :
        ~Uncancelled(s) =>
            /\ gen[s].state = "closed"
            /\ gen[s].emitted = gen[s].snapshot[1].emitted
            /\ gen[s].events = gen[s].snapshot[1].events
            /\ EmitsSourcePrefix(s)

\* A stream over at least two rows was closed after its first item, and another
\* stream on the same table has since run to its end.
C12_Witness ==
    \E s, t \in Streams :
        /\ s # t
        /\ gen[s].state = "closed"
        /\ Len(gen[s].emitted) = 1
        /\ Len(Source) >= 2
        /\ gen[t].state = "finished"

Unavailable == dataset.kind \in {"missing", "no_columns"} \/ dataset.rows = <<>>

\* C14 as stated: on a missing or empty dataset the latest-reading operation
\* answers with an error and no assessment, and a stream that was started ends
\* in an error, not the way a stream ends after its last row.
C14_BothSurfaceDataUnavailable ==
    Unavailable =>
        /\ op = "threat_latest" => (response.status >= 400 /\ result = NoResult)
        /\ \A s \in Streams :
              gen[s].state \notin {"unstarted", "closed"} => gen[s].state = "error"

\* C14, amended: on a missing or empty dataset the latest-reading operation
\* answers 404 (500 when the file has no header line) without an assessment; the
\* simulator is constructed with an empty table (only a file without a header
\* line makes its constructor raise EmptyDataError), and a stream started on it
\* ends at once the way every stream ends, having emitted and delayed nothing.
C14_LatestErrorsStreamEndsEmpty ==
    Unavailable =>
        /\ op = "threat_latest" =>
              /\ response.status = IF dataset.kind = "no_columns" THEN 500 ELSE 404
              /\ DOMAIN response.body = {"detail"}
              /\ result = NoResult
        /\ sim # NoSim =>
              sim = IF dataset.kind = "no_columns"
                    THEN [status |-> "raised", exc |-> "EmptyDataError", df |-> <<>>]
                    ELSE [status |-> "ok", exc |-> "none", df |-> <<>>]
        /\ \A s \in Streams :
              /\ gen[s].state \in {"unstarted", "closed", "finished"}
              /\ gen[s].emitted = <<>>
              /\ gen[s].events = <<>>

\* The file is absent, the latest reading was asked for and refused with 404,
\* and a stream has ended without an item.
C14_Witness ==
    /\ dataset.kind = "missing"
    /\ op = "threat_latest"
    /\ response.status = 404
    /\ \E s \in Streams : gen[s].state = "finished" /\ gen[s].emitted = <<>>

\* The events of stream s alternate, an item first and a delay after each item.
ItemThenDelay(s) ==
    \A j \in 1..Len(gen[s].events) :
        gen[s].events[j] = IF j % 2 = 1 THEN "emit" ELSE "sleep"

C16_StreamsIndependent ==
    /\ [](\A s \in Streams :
            /\ EmitsSourcePrefix(s)
            /\ cursor[CursorOf(s)] = Len(gen[s].emitted)
            /\ (gen[s].state = "finished" /\ Uncancelled(s)) => gen[s].emitted = Source)
    /\ [][/\ \A s, t \in Streams :
                (s # t /\ gen'[s] # gen[s]) =>
                    /\ gen'[t] = gen[t]
                    /\ cursor'[CursorOf(t)] = cursor[CursorOf(t)]
          /\ sim # NoSim => sim' = sim
          /\ dataset' = dataset
          /\ WEIGHTS' = WEIGHTS]_vars

\* Two streams on one table stand at different rows: the first sleeps after its
\* second item while the second is suspended at its third.
C16_Witness ==
    /\ gen[1].state = "sleeping"
    /\ Len(gen[1].emitted) = 2
    /\ gen[2].state = "suspended"
    /\ Len(gen[2].emitted) = 3
    /\ gen[2].emitted[3] # gen[1].emitted[2]

LatestAnswered ==
    /\ dataset.kind = "table"
    /\ dataset.rows # <<>>
    /\ op = "threat_latest"

\* The last row of the table.
LastRow == dataset.rows[Len(dataset.rows)]

\* Every scoring cell of row r holds a number (data_prep drops all other rows).
Complete(r) == \A p \in Params : r[p].kind = "num"

\* C18: for a table with rows GET /threat/latest answers 200; raw carries the
\* numbers of the last row unchanged (an empty cell as None), and when the last
\* row is complete, as in every processed dataset, score, level and risks are
\* those of calculate_threat_score on the last row.
C18_LatestIsLastRow ==
    LatestAnswered =>
        /\ response.status = 200
        /\ \A p \in Params : response.body.raw[p] = RawValue(LastRow[p])
        /\ Complete(LastRow) =>
              LET res == calculate_threat_score(LastRow, WEIGHTS)
              IN  /\ \A p \in Params : response.body.raw[p] = LastRow[p]
                  /\ res.kind = "return"
                  /\ response.body.score = res.score
                  /\ response.body.level = res.level
                  /\ response.body.parameters = res.parameters

\* The table ends with the regression reading after a calm row, and the answer
\* carries the regression reading's wind speed and score.
C18_Witness ==
    /\ LatestAnswered
    /\ Len(dataset.rows) >= 2
    /\ dataset.rows[1] # LastRow
    /\ LastRow = RegressionReading
    /\ response.body.raw["wind_speed"] = Num(180)
    /\ response.body.score = 4333

====
